---- MODULE Spec2Model ----
(***************************************************************************)
(* Model of the immune-based (clonal selection) placement engine of        *)
(* immune_placement_simulation/immune_placement.py and of the metric       *)
(* evaluation and baselines of simulation_runner.py.                       *)
(*                                                                         *)
(* Python floats are modelled by exact rationals [n |-> num, d |-> den]    *)
(* in lowest terms with d > 0; latencies and demands are integers.  The    *)
(* mean fitness of a generation is carried as the binary64 float itself.   *)
(***************************************************************************)
EXTENDS Integers, Sequences, FiniteSets, TLC

VARIABLES
    peers,              \* self.peers: peer id -> Peer
    peer_list,          \* self.peer_list: peer ids in construction order
    rtt_matrix,         \* self.rtt_matrix: [peer_to_peer, peer_to_edge]
    num_super_peers,    \* self.num_super_peers
    alpha,              \* self.alpha
    beta,               \* self.beta
    pop_size,           \* self.pop_size
    clone_factor,       \* self.clone_factor
    mutation_rate,      \* self.mutation_rate, in percent
    max_generations,    \* self.max_generations
    generation_history, \* self.generation_history
    pc,                 \* position of the caller / of optimize()
    population,         \* optimize(): population
    new_population,     \* optimize(): new_population
    best_solution,      \* optimize(): best_solution
    best_fitness,       \* optimize(): best_fitness
    generation,         \* optimize(): generation
    idx,                \* optimize(): idx of the elite being cloned
    clones_left,        \* optimize(): clones still to produce for population[idx]
    returned,           \* value returned by the last completed optimize()
    calls,              \* number of optimize() calls started on this engine
    sol,                \* a Solution held by the caller
    probe,              \* result of the caller's last query
    heap,               \* the list and dict objects of the Solutions below, by address
    original,           \* a Solution s, as the addresses of its list and its dict
    derived,            \* the Solution clone_solution(s) or mutate_solution(s) returned
    before,             \* what the list and the dict of s held when s was made
    tape,               \* the outcomes of the random draws of a first run, in order
    cursor,             \* how many of them a second run has been fed
    first,              \* what the first of two runs returned
    hash_seed           \* the string-hash seed of the process (differs between runs)

vars == <<peers, peer_list, rtt_matrix, num_super_peers, alpha, beta, pop_size,
          clone_factor, mutation_rate, max_generations, generation_history, pc,
          population, new_population, best_solution, best_fitness, generation,
          idx, clones_left, returned, calls, sol, probe,
          heap, original, derived, before, tape, cursor, first, hash_seed>>

netVars == <<peers, peer_list, rtt_matrix>>
aliasVars == <<heap, original, derived, before>>
\* what the sessions on one engine and on Solution values leave alone
twinVars == <<tape, cursor, first, hash_seed>>
auxVars == <<aliasVars, twinVars>>
cfgVars == <<num_super_peers, alpha, beta, pop_size, clone_factor, mutation_rate,
             max_generations>>
optVars == <<population, new_population, best_solution, best_fitness, generation,
             idx, clones_left>>

\* Python's None (a record, so that it compares with Solutions)
None == [none |-> TRUE]

(***************************************************************************)
(* Exact rational arithmetic standing for Python float arithmetic.         *)
(***************************************************************************)
Abs(x) == IF x < 0 THEN -x ELSE x

RECURSIVE GCD(_, _)
GCD(a, b) == IF b = 0 THEN a ELSE GCD(b, a % b)

Rat(num, den) ==
    LET g == GCD(Abs(num), Abs(den))
        s == IF den < 0 THEN -1 ELSE 1
    IN [n |-> s * (num \div g), d |-> s * (den \div g)]

R(k) == [n |-> k, d |-> 1]

RatAdd(a, b) ==
    LET g == GCD(a.d, b.d)
        l == (a.d \div g) * b.d
    IN Rat(a.n * (l \div a.d) + b.n * (l \div b.d), l)

RatNeg(a) == [n |-> -a.n, d |-> a.d]

RatSub(a, b) == RatAdd(a, RatNeg(b))

RatMul(a, b) ==
    LET g1 == GCD(Abs(a.n), b.d)
        g2 == GCD(Abs(b.n), a.d)
    IN Rat((a.n \div g1) * (b.n \div g2), (a.d \div g2) * (b.d \div g1))

RatInv(a) == Rat(a.d, a.n)

RatDiv(a, b) == RatMul(a, RatInv(b))

\* a < b, by comparing the continued-fraction expansions (no cross product)
RECURSIVE RatLess(_, _)
RatLess(a, b) ==
    LET qa == a.n \div a.d
        qb == b.n \div b.d
        ra == a.n % a.d
        rb == b.n % b.d
    IN IF qa # qb THEN qa < qb
       ELSE IF rb = 0 THEN FALSE
       ELSE IF ra = 0 THEN TRUE
       ELSE RatLess([n |-> b.d, d |-> rb], [n |-> a.d, d |-> ra])

RatLeq(a, b) == ~RatLess(b, a)

RatFloor(a) == a.n \div a.d

RECURSIVE SumSeq(_)
SumSeq(s) == IF s = <<>> THEN 0 ELSE Head(s) + SumSeq(Tail(s))

Range(s) == {s[i] : i \in DOMAIN s}

Min2(a, b) == IF a < b THEN a ELSE b
Max2(a, b) == IF a > b THEN a ELSE b
SetMin(S) == CHOOSE x \in S : \A y \in S : x <= y

(***************************************************************************)
(* Networks: the inputs handed to ImmunePlacementAlgorithm.__init__ and to *)
(* SimulationRunner.  Latencies in ms, demands in kbps.                    *)
(***************************************************************************)
Edges == {"A", "B"}

Peer(id, region, demand, rtt_a, rtt_b, neighbors) ==
    [id |-> id, region |-> region, demand |-> demand,
     rtt_to_edge_a |-> rtt_a, rtt_to_edge_b |-> rtt_b, neighbors |-> neighbors]

RTTMatrix(p2p, p2e) == [peer_to_peer |-> p2p, peer_to_edge |-> p2e]

EmptyDict == [k \in {} |-> 0]

\* the table generate_synthetic_network stores for the edges: (peer, edge) -> stored RTT
StoredEdgeTable(ps) ==
    [k \in {<<ps[i].id, e>> : i \in DOMAIN ps, e \in Edges} |->
        LET p == CHOOSE q \in Range(ps) : q.id = k[1]
        IN IF k[2] = "A" THEN p.rtt_to_edge_a ELSE p.rtt_to_edge_b]

\* a single peer
NetOne ==
    LET ps == << Peer("p1", "canada", 3, 20, 30, <<>>) >>
    IN [peers |-> ps, rtt_matrix |-> RTTMatrix(EmptyDict, StoredEdgeTable(ps))]

\* two peers, one pair measured in one ordering only, no peer-to-edge table
NetTwo ==
    [peers |-> << Peer("p1", "us-east", 2, 20, 90, <<"p2">>),
                  Peer("p2", "eu-west", 4, 80, 30, <<"p1">>) >>,
     rtt_matrix |-> RTTMatrix(<<"p1", "p2">> :> 10, EmptyDict)]

\* three peers, every ordered pair measured separately (as the generator does)
NetThree ==
    LET ps == << Peer("p1", "us-east", 2, 20, 90, <<"p2">>),
                 Peer("p2", "us-west", 2, 60, 40, <<"p1", "p3">>),
                 Peer("p3", "eu-west", 4, 80, 30, <<>>) >>
    IN [peers |-> ps,
        rtt_matrix |-> RTTMatrix(
            (<<"p1", "p2">> :> 10) @@ (<<"p2", "p1">> :> 30) @@
            (<<"p1", "p3">> :> 90) @@ (<<"p3", "p1">> :> 80) @@
            (<<"p2", "p3">> :> 20) @@ (<<"p3", "p2">> :> 20),
            StoredEdgeTable(ps))]

\* a hand-built four-peer scenario: demand 100 each, p1/p2 closer to A, p3/p4 closer
\* to B, no peer-to-peer latency measured
NetFour ==
    LET ps == << Peer("p1", "us-east", 100, 20, 90, <<>>),
                 Peer("p2", "us-east", 100, 30, 80, <<>>),
                 Peer("p3", "eu-west", 100, 90, 20, <<>>),
                 Peer("p4", "eu-west", 100, 80, 30, <<>>) >>
    IN [peers |-> ps, rtt_matrix |-> RTTMatrix(EmptyDict, StoredEdgeTable(ps))]

\* two peers whose measured edge latencies differ from the stored ones,
\* with a measured self-pair
NetMeasured ==
    [peers |-> << Peer("p1", "india", 3, 40, 70, <<"p2">>),
                  Peer("p2", "india", 1, 50, 50, <<"p1">>) >>,
     rtt_matrix |-> RTTMatrix(
         (<<"p2", "p1">> :> 15) @@ (<<"p1", "p1">> :> 7),
         (<<"p1", "A">> :> 45) @@ (<<"p2", "B">> :> 35))]

\* two peers that ask for nothing: the total demand is 0
NetIdle ==
    LET ps == << Peer("p1", "india", 0, 20, 30, <<>>),
                 Peer("p2", "india", 0, 50, 40, <<>>) >>
    IN [peers |-> ps, rtt_matrix |-> RTTMatrix(EmptyDict, StoredEdgeTable(ps))]

(***************************************************************************)
(* Distance oracle                                                         *)
(***************************************************************************)
DefaultPeerRtt == 100

Get(dict, key, default) == IF key \in DOMAIN dict THEN dict[key] ELSE default

\* an oracle that reads the table before it compares the two ids
get_peer_rtt_table_first(peer_i, peer_j) ==
    Get(rtt_matrix.peer_to_peer, <<peer_i, peer_j>>,
        Get(rtt_matrix.peer_to_peer, <<peer_j, peer_i>>,
            IF peer_i = peer_j THEN 0 ELSE DefaultPeerRtt))

get_peer_rtt(peer_i, peer_j) ==
    IF peer_i = peer_j THEN 0
    ELSE Get(rtt_matrix.peer_to_peer, <<peer_i, peer_j>>,
             Get(rtt_matrix.peer_to_peer, <<peer_j, peer_i>>, DefaultPeerRtt))

get_edge_rtt(peer_id, edge) ==
    IF <<peer_id, edge>> \in DOMAIN rtt_matrix.peer_to_edge
    THEN rtt_matrix.peer_to_edge[<<peer_id, edge>>]
    ELSE IF edge = "A" THEN peers[peer_id].rtt_to_edge_a
         ELSE peers[peer_id].rtt_to_edge_b

(***************************************************************************)
(* Solutions and the objective evaluator                                   *)
(***************************************************************************)
P2POverhead == 5
MaxDelay == 200
EpsilonInverse == 1000000

\* Solution(super_peers=..., edge_assignments=...): derived fields default to 0.0
Solution(super_peers, edge_assignments) ==
    [super_peers |-> super_peers, edge_assignments |-> edge_assignments,
     fitness |-> R(0), avg_delay |-> R(0), load_imbalance |-> R(0),
     edge_a_load |-> 0, edge_b_load |-> 0]

AssignedEdge(solution, peer_id) == Get(solution.edge_assignments, peer_id, "A")

\* a delay that leaves out the P2P overhead of line 131
EffectiveDelayWithoutOverhead(solution, peer_id) ==
    LET d_edge == get_edge_rtt(peer_id, AssignedEdge(solution, peer_id))
    IN IF solution.super_peers = <<>> THEN d_edge
       ELSE Min2(SetMin({get_peer_rtt(peer_id, sp) : sp \in Range(solution.super_peers)}),
                 d_edge)

\* d_effective of one peer (lines 117-131)
EffectiveDelay(solution, peer_id) ==
    LET d_edge == get_edge_rtt(peer_id, AssignedEdge(solution, peer_id))
    IN IF solution.super_peers = <<>> THEN d_edge
       ELSE Min2(SetMin({get_peer_rtt(peer_id, sp) : sp \in Range(solution.super_peers)})
                    + P2POverhead,
                 d_edge)

\* effective_delays after the loop over the peers (line 133)
EffectiveDelays(solution) ==
    [i \in DOMAIN peer_list |->
        <<peer_list[i], EffectiveDelay(solution, peer_list[i]),
          peers[peer_list[i]].demand>>]

\* the load of an edge counted from the peers it actually serves, those that are not
\* served over P2P
EdgeLoadDelivered(solution, edge) ==
    SumSeq([i \in DOMAIN peer_list |->
              IF /\ AssignedEdge(solution, peer_list[i]) = edge
                 /\ EffectiveDelay(solution, peer_list[i])
                        = get_edge_rtt(peer_list[i], edge)
              THEN peers[peer_list[i]].demand ELSE 0])

\* edge_loads[edge] after the loop over the peers (line 136)
EdgeLoad(solution, edge) ==
    SumSeq([i \in DOMAIN peer_list |->
              IF AssignedEdge(solution, peer_list[i]) = edge
              THEN peers[peer_list[i]].demand ELSE 0])

TotalDemand == SumSeq([i \in DOMAIN peer_list |-> peers[peer_list[i]].demand])

WeightedDelay(solution) ==
    SumSeq([i \in DOMAIN peer_list |->
              EffectiveDelay(solution, peer_list[i]) * peers[peer_list[i]].demand])

Square(x) == RatMul(x, x)

\* the fitness of an objective that is subtracted from epsilon instead of added to it
FitnessOfNegatedObjective(avg_delay, load_imbalance, total_demand) ==
    LET normalized_delay == RatDiv(avg_delay, R(MaxDelay))
        max_imbalance == Square(Rat(total_demand, 2))
        normalized_imbalance == IF max_imbalance.n > 0
                                THEN RatDiv(load_imbalance, max_imbalance) ELSE R(0)
        objective == RatAdd(RatMul(alpha, normalized_delay),
                            RatMul(beta, normalized_imbalance))
    IN RatInv(RatSub(Rat(1, EpsilonInverse), objective))

\* lines 151-163, from the average delay, the load imbalance and the total demand
Fitness(avg_delay, load_imbalance, total_demand) ==
    LET normalized_delay == RatDiv(avg_delay, R(MaxDelay))
        max_imbalance == Square(Rat(total_demand, 2))
        normalized_imbalance == IF max_imbalance.n > 0
                                THEN RatDiv(load_imbalance, max_imbalance) ELSE R(0)
        objective == RatAdd(RatMul(alpha, normalized_delay),
                            RatMul(beta, normalized_imbalance))
    IN RatInv(RatAdd(objective, Rat(1, EpsilonInverse)))

\* the sum of the squared deviations without the factor 0.5 of line 149
LoadImbalanceUnhalved(load_a, load_b) ==
    LET load_avg == Rat(load_a + load_b, 2)
    IN RatAdd(Square(RatSub(R(load_a), load_avg)), Square(RatSub(R(load_b), load_avg)))

\* the mean absolute deviation of the two loads instead of their variance
LoadImbalanceAbsolute(load_a, load_b) == Rat(Abs(load_a - load_b), 2)

\* lines 145-149
LoadImbalance(load_a, load_b) ==
    LET load_avg == Rat(load_a + load_b, 2)
    IN RatMul(Rat(1, 2), RatAdd(Square(RatSub(R(load_a), load_avg)),
                                Square(RatSub(R(load_b), load_avg))))

\* an average that falls back to the assumed maximum delay when nothing is demanded
AvgDelayWorstCaseWhenIdle(weighted, total_demand) ==
    IF total_demand > 0 THEN Rat(weighted, total_demand) ELSE R(MaxDelay)

\* lines 138-143
AvgDelay(weighted, total_demand) ==
    IF total_demand > 0 THEN Rat(weighted, total_demand) ELSE R(0)

\* the tuple evaluate_solution returns (lines 138-172)
Metrics(solution) ==
    LET load_a == EdgeLoad(solution, "A")
        load_b == EdgeLoad(solution, "B")
        avg_delay == AvgDelay(WeightedDelay(solution), TotalDemand)
        load_imbalance == LoadImbalance(load_a, load_b)
    IN [fitness |-> Fitness(avg_delay, load_imbalance, TotalDemand),
        avg_delay |-> avg_delay, load_imbalance |-> load_imbalance,
        edge_a_load |-> load_a, edge_b_load |-> load_b]

\* lines 165-170: the result cached on the Solution
UpdateSolution(solution, m) ==
    [solution EXCEPT !.fitness = m.fitness, !.avg_delay = m.avg_delay,
                     !.load_imbalance = m.load_imbalance,
                     !.edge_a_load = m.edge_a_load, !.edge_b_load = m.edge_b_load]

\* an evaluator that also puts the super-peer list in the order of the peer list
evaluate_solution_in_peer_order(solution) ==
    UpdateSolution([solution EXCEPT !.super_peers =
                        SelectSeq(peer_list, LAMBDA p : p \in Range(solution.super_peers))],
                   Metrics(solution))

\* the Solution after evaluate_solution(solution)
evaluate_solution(solution) == UpdateSolution(solution, Metrics(solution))

(***************************************************************************)
(* Solution factory                                                        *)
(***************************************************************************)
EdgeBiasPercent == 70

\* outcomes of `random.random() < num/den`
Chance(num, den) == {b \in BOOLEAN : IF b THEN num > 0 ELSE num < den}

PeerIds == Range(peer_list)

\* outcomes of random.sample(self.peer_list, k), 0 <= k <= len(peer_list)
Sample(k) ==
    {s \in [1..k -> PeerIds] : \A i, j \in 1..k : i # j => s[i] # s[j]}

\* one super-peer fewer than line 177 draws
SampleSizeOneFewer == Min2(num_super_peers, Len(peer_list)) - 1

SampleSize == Min2(num_super_peers, Len(peer_list))

\* random.sample raises ValueError for a negative sample size
GenerateRaises == SampleSize < 0

CloserEdge(peer_id) ==
    IF peers[peer_id].rtt_to_edge_a < peers[peer_id].rtt_to_edge_b THEN "A" ELSE "B"

OtherEdge(edge) == IF edge = "A" THEN "B" ELSE "A"

\* outcomes of the edge-assignment loop of generate_random_solution (lines 181-187)
RandomEdgeAssignments ==
    {ea \in [PeerIds -> Edges] :
        \A peer_id \in PeerIds :
            \E b \in Chance(EdgeBiasPercent, 100) :
                ea[peer_id] = IF b THEN CloserEdge(peer_id)
                              ELSE OtherEdge(CloserEdge(peer_id))}

\* the Solutions generate_random_solution can return
generate_random_solution ==
    {evaluate_solution(Solution(sp, ea)) : sp \in Sample(SampleSize),
                                           ea \in RandomEdgeAssignments}

clone_solution(solution) ==
    Solution(solution.super_peers, solution.edge_assignments)

\* a super-peer mutation whose candidates are not filtered against the list (line 209)
MutatedSuperPeersUnfiltered(super_peers) ==
    {sp \in [DOMAIN super_peers -> PeerIds] :
        \E b \in Chance(mutation_rate, 100) :
           IF b /\ Len(super_peers) > 0
           THEN \E i \in 1..Len(super_peers), c \in PeerIds :
                   sp = [super_peers EXCEPT ![i] = c]
           ELSE sp = super_peers}

\* a super-peer mutation that replaces two slots, each by a candidate
MutatedSuperPeersTwoSlots(super_peers) ==
    LET candidates == {p \in PeerIds : p \notin Range(super_peers)}
    IN {sp \in [DOMAIN super_peers -> PeerIds] :
          \E b \in Chance(mutation_rate, 100) :
             IF b /\ Len(super_peers) > 0 /\ candidates # {}
             THEN \E i, j \in 1..Len(super_peers), c, e \in candidates :
                     sp = [[super_peers EXCEPT ![i] = c] EXCEPT ![j] = e]
             ELSE sp = super_peers}

\* outcomes of the super-peer mutation (lines 208-214)
MutatedSuperPeers(super_peers) ==
    LET candidates == {p \in PeerIds : p \notin Range(super_peers)}
    IN {sp \in [DOMAIN super_peers -> PeerIds] :
          \E b \in Chance(mutation_rate, 100) :
             IF b /\ Len(super_peers) > 0 /\ candidates # {}
             THEN \E i \in 1..Len(super_peers), c \in candidates :
                     sp = [super_peers EXCEPT ![i] = c]
             ELSE sp = super_peers}

\* an edge mutation that keeps only the flipped entries of the mapping
MutatedEdgeAssignmentsFlippedOnly(edge_assignments) ==
    {[peer_id \in flipped |-> OtherEdge(edge_assignments[peer_id])] :
        flipped \in SUBSET DOMAIN edge_assignments}

\* an edge mutation that moves a peer on to the next of three edges A, B, C
MutatedEdgeAssignmentsAmongThree(edge_assignments) ==
    {[peer_id \in DOMAIN edge_assignments |->
        IF peer_id \in flipped
        THEN (IF edge_assignments[peer_id] = "A" THEN "B"
              ELSE IF edge_assignments[peer_id] = "B" THEN "C" ELSE "A")
        ELSE edge_assignments[peer_id]] :
        flipped \in SUBSET DOMAIN edge_assignments}

\* outcomes of the edge mutation loop (lines 217-220)
MutatedEdgeAssignments(edge_assignments) ==
    {ea \in [DOMAIN edge_assignments -> Edges] :
        \A peer_id \in DOMAIN edge_assignments :
            \E b \in Chance(mutation_rate * 5, 1000) :
                ea[peer_id] = IF b THEN (IF edge_assignments[peer_id] = "A"
                                         THEN "B" ELSE "A")
                              ELSE edge_assignments[peer_id]}

\* the Solutions mutate_solution(solution) can return
mutate_solution(solution) ==
    LET mutated == clone_solution(solution)
    IN {[mutated EXCEPT !.super_peers = sp, !.edge_assignments = ea] :
           sp \in MutatedSuperPeers(mutated.super_peers),
           ea \in MutatedEdgeAssignments(mutated.edge_assignments)}

(***************************************************************************)
(* The factory as a function of the outcomes of its random draws           *)
(***************************************************************************)
\* the outcomes of the draws of one generate_random_solution call: the sample, and
\* for every peer whether random.random() < 0.7
GenerateDraws ==
    [sample : Sample(SampleSize), closer : [PeerIds -> Chance(EdgeBiasPercent, 100)]]

generate_random_solution_from(d) ==
    evaluate_solution(
        Solution(d.sample,
                 [peer_id \in PeerIds |->
                    IF d.closer[peer_id] THEN CloserEdge(peer_id)
                    ELSE OtherEdge(CloserEdge(peer_id))]))

\* line 212: the list comprehension keeps the order of self.peer_list
Candidates(super_peers) ==
    SelectSeq(peer_list, LAMBDA p : p \notin Range(super_peers))

\* the outcomes of the draws of one mutate_solution(solution) call: whether
\* random.random() < mutation_rate, randint (1-based, 0 when not drawn), the
\* position random.choice takes (0 when not drawn), and for every key whether
\* random.random() < mutation_rate * 0.5
MutateDraws(solution) ==
    {d \in [hit : Chance(mutation_rate, 100),
            idx : 0..Len(solution.super_peers),
            choice : 0..Len(Candidates(solution.super_peers)),
            flip : [DOMAIN solution.edge_assignments -> Chance(mutation_rate * 5, 1000)]] :
        LET replace == d.hit /\ Len(solution.super_peers) > 0
        IN /\ (d.idx # 0) = replace
           /\ (d.choice # 0) = (replace /\ Candidates(solution.super_peers) # <<>>)}

mutate_solution_from(solution, d) ==
    LET mutated == clone_solution(solution)
        candidates == Candidates(mutated.super_peers)
    IN [mutated EXCEPT
          !.super_peers = IF d.choice # 0 THEN [@ EXCEPT ![d.idx] = candidates[d.choice]]
                          ELSE @,
          !.edge_assignments = [peer_id \in DOMAIN @ |->
                                  IF d.flip[peer_id] THEN OtherEdge(@[peer_id])
                                  ELSE @[peer_id]]]

(***************************************************************************)
(* optimize(): helpers                                                     *)
(***************************************************************************)
\* a generation that ranks the members on their cached fields
KeepCached(pop) == pop

\* lines 245-246: every member re-evaluated
RECURSIVE EvaluateAll(_)
EvaluateAll(pop) ==
    IF pop = <<>> THEN <<>>
    ELSE <<evaluate_solution(Head(pop))>> \o EvaluateAll(Tail(pop))

\* best-ever tracking in which a member of equal fitness replaces the best-ever Solution
RECURSIVE TrackBestLastSeen(_, _, _, _)
TrackBestLastSeen(pop, i, bf, bs) ==
    IF i > Len(pop) THEN <<bf, bs>>
    ELSE IF RatLeq(bf, pop[i].fitness)
         THEN TrackBestLastSeen(pop, i + 1, pop[i].fitness, clone_solution(pop[i]))
         ELSE TrackBestLastSeen(pop, i + 1, bf, bs)

\* lines 249-252: <<best_fitness, best_solution>> after scanning pop[i..]
RECURSIVE TrackBest(_, _, _, _)
TrackBest(pop, i, bf, bs) ==
    IF i > Len(pop) THEN <<bf, bs>>
    ELSE IF RatLess(bf, pop[i].fitness)
         THEN TrackBest(pop, i + 1, pop[i].fitness, clone_solution(pop[i]))
         ELSE TrackBest(pop, i + 1, bf, bs)

\* s inserted behind every member whose fitness is >= its own
RECURSIVE InsertDesc(_, _)
InsertDesc(sorted, s) ==
    IF sorted = <<>> THEN <<s>>
    ELSE IF RatLess(Head(sorted).fitness, s.fitness) THEN <<s>> \o sorted
         ELSE <<Head(sorted)>> \o InsertDesc(Tail(sorted), s)

\* line 255: population.sort(key=fitness, reverse=True), a stable sort
RECURSIVE SortDesc(_)
SortDesc(pop) ==
    IF pop = <<>> THEN <<>>
    ELSE InsertDesc(SortDesc(SubSeq(pop, 1, Len(pop) - 1)), pop[Len(pop)])

(***************************************************************************)
(* The mean of line 258 is the one place where the last bit of a float     *)
(* decides a comparison, so its terms and its result are carried as the    *)
(* IEEE 754 binary64 values the interpreter holds.  A positive float is    *)
(* [hi, lo, exp] and stands for (hi * 2^27 + lo) * 2^exp, with a 53-bit    *)
(* significand: 2^25 <= hi < 2^26 and 0 <= lo < 2^27.  0.0 is [0, 0, 0].   *)
(* Every operation rounds to the nearest float, ties to the even one.      *)
(***************************************************************************)
FloatZero == [hi |-> 0, lo |-> 0, exp |-> 0]

\* the float nearest to (hi * 2^27 + lo + a fraction) * 2^exp, where the number in
\* brackets has at least 54 bits and sticky tells whether the fraction is not zero
RECURSIVE RoundToFloat(_, _, _, _)
RoundToFloat(hi, lo, sticky, exp) ==
    IF hi >= 2^27
    THEN RoundToFloat(hi \div 2, lo \div 2 + (hi % 2) * 2^26, sticky \/ lo % 2 = 1,
                      exp + 1)
    ELSE LET lo53 == lo \div 2 + (hi % 2) * 2^26
             hi53 == hi \div 2
             up == lo % 2 = 1 /\ (sticky \/ lo53 % 2 = 1)
         IN IF ~up THEN [hi |-> hi53, lo |-> lo53, exp |-> exp + 1]
            ELSE IF lo53 + 1 < 2^27 THEN [hi |-> hi53, lo |-> lo53 + 1, exp |-> exp + 1]
            ELSE IF hi53 + 1 < 2^26 THEN [hi |-> hi53 + 1, lo |-> 0, exp |-> exp + 1]
            ELSE [hi |-> 2^25, lo |-> 0, exp |-> exp + 2]

\* the float nearest to (hi * 2^27 + lo + r / d) * 2^exp, 0 <= r < d: the bits of
\* r / d are drawn c at a time until there are at least 54 bits
RECURSIVE FloatQuotient(_, _, _, _, _)
FloatQuotient(hi, lo, r, d, exp) ==
    IF hi >= 2^26 THEN RoundToFloat(hi, lo, r # 0, exp)
    ELSE LET c == IF d >= 2^22 THEN 1 ELSE IF hi < 2^18 THEN 8 ELSE 4
             t == r * 2^c
         IN FloatQuotient(hi * 2^c + lo \div 2^(27 - c),
                          (lo % 2^(27 - c)) * 2^c + t \div d, t % d, d, exp - c)

\* the float n / d of two integers that floats hold exactly (n >= 0, d > 0)
ToFloat(n, d) ==
    IF n = 0 THEN FloatZero
    ELSE FloatQuotient((n \div d) \div 2^27, (n \div d) % 2^27, n % d, d, 0)

\* x / n for a whole number n that a float holds exactly (0 < n < 2^22)
FloatDivInt(x, n) ==
    IF x.hi = 0 THEN FloatZero
    ELSE LET t2 == (x.hi % n) * 512 + ((x.lo \div 2^18) % 512)
             t1 == (t2 % n) * 512 + ((x.lo \div 2^9) % 512)
             t0 == (t1 % n) * 512 + (x.lo % 512)
         IN FloatQuotient(x.hi \div n,
                          (t2 \div n) * 2^18 + (t1 \div n) * 2^9 + t0 \div n,
                          t0 % n, n, x.exp)

\* hi * 2^27 + lo shifted right by k bits; sticky tells whether a 1 was shifted out
RECURSIVE ShiftRight(_, _, _, _)
ShiftRight(hi, lo, sticky, k) ==
    IF k = 0 THEN [hi |-> hi, lo |-> lo, sticky |-> sticky]
    ELSE IF k >= 27 THEN ShiftRight(hi \div 2^27, hi % 2^27, sticky \/ lo # 0, k - 27)
    ELSE [hi |-> hi \div 2^k, lo |-> lo \div 2^k + (hi % 2^k) * 2^(27 - k),
          sticky |-> sticky \/ lo % 2^k # 0]

\* x + y, on significands lengthened by three bits
RECURSIVE FloatAdd(_, _)
FloatAdd(x, y) ==
    IF x.hi = 0 THEN y
    ELSE IF y.hi = 0 THEN x
    ELSE IF x.exp < y.exp THEN FloatAdd(y, x)
    ELSE IF x.exp - y.exp > 60 THEN x
    ELSE LET s == ShiftRight(y.hi * 8 + (y.lo * 8) \div 2^27, (y.lo * 8) % 2^27,
                             FALSE, x.exp - y.exp)
             lo == ((x.lo * 8) % 2^27) + s.lo
             hi == x.hi * 8 + (x.lo * 8) \div 2^27 + s.hi + lo \div 2^27
         IN RoundToFloat(hi, lo % 2^27, s.sticky, x.exp - 3)

\* the significand of x in four digits of base 2^14, the lowest first
FloatDigits(x) ==
    << x.lo % 2^14, x.lo \div 2^14 + (x.hi % 2) * 2^13,
       (x.hi \div 2) % 2^14, (x.hi \div 2) \div 2^14 >>

\* the digits of base 2^14 of the product of a and b, from digit k (0-indexed) on
RECURSIVE ProductDigits(_, _, _, _)
ProductDigits(a, b, k, carry) ==
    IF k = 8 THEN <<>>
    ELSE LET c == carry + SumSeq([i \in 1..4 |-> IF k + 2 - i \in 1..4
                                                THEN a[i] * b[k + 2 - i] ELSE 0])
         IN <<c % 2^14>> \o ProductDigits(a, b, k + 1, c \div 2^14)

\* x * y
FloatMul(x, y) ==
    IF x.hi = 0 \/ y.hi = 0 THEN FloatZero
    ELSE LET p == ProductDigits(FloatDigits(x), FloatDigits(y), 0, 0)
         IN RoundToFloat(p[6] \div 2^7 + p[7] * 2^7 + p[8] * 2^21,
                         p[4] \div 2^8 + p[5] * 2^6 + (p[6] % 2^7) * 2^20,
                         p[1] # 0 \/ p[2] # 0 \/ p[3] # 0 \/ p[4] % 2^8 # 0,
                         x.exp + y.exp + 50)

\* 2^106 / (hi * 2^27 + lo) by long division, three bits at a time: the remainder
\* is rh * 2^27 + rl and the quotient so far qh * 2^27 + ql.  The next digit is the
\* quotient of the leading words or one less
RECURSIVE ReciprocalDigits(_, _, _, _, _, _, _, _)
ReciprocalDigits(rh, rl, qh, ql, steps, hi, lo, exp) ==
    IF steps = 0 THEN RoundToFloat(qh, ql, rh # 0 \/ rl # 0, exp)
    ELSE LET rh8 == rh * 8 + (rl * 8) \div 2^27
             rl8 == (rl * 8) % 2^27
             q1 == IF rh8 \div hi > 7 THEN 7 ELSE rh8 \div hi
             fits == \/ q1 * hi + (q1 * lo) \div 2^27 < rh8
                     \/ /\ q1 * hi + (q1 * lo) \div 2^27 = rh8
                        /\ (q1 * lo) % 2^27 <= rl8
             q == IF fits THEN q1 ELSE q1 - 1
             ph == q * hi + (q * lo) \div 2^27
             pl == (q * lo) % 2^27
             borrow == IF rl8 < pl THEN 1 ELSE 0
         IN ReciprocalDigits(rh8 - ph - borrow, rl8 - pl + borrow * 2^27,
                             qh * 8 + (ql * 8 + q) \div 2^27, (ql * 8 + q) % 2^27,
                             steps - 1, hi, lo, exp)

\* 1.0 / x for x > 0
FloatReciprocal(x) ==
    IF x.hi = 2^25 /\ x.lo = 0
    THEN ReciprocalDigits(0, 0, 0, 1, 18, x.hi, x.lo, -x.exp - 106)
    ELSE ReciprocalDigits(2^25, 0, 0, 0, 18, x.hi, x.lo, -x.exp - 106)

\* x < y for floats that are not negative
FloatLess(x, y) ==
    IF y.hi = 0 THEN FALSE
    ELSE IF x.hi = 0 THEN TRUE
    ELSE IF x.exp # y.exp THEN x.exp < y.exp
    ELSE IF x.hi # y.hi THEN x.hi < y.hi
    ELSE x.lo < y.lo

\* the float 1e-6 of line 163
Epsilon == ToFloat(1, EpsilonInverse)

\* the float evaluate_solution stores in solution.fitness (lines 138-163): the
\* delays, demands and loads are whole numbers and so are their sums, products and
\* squares; the quotients, the weighted sum and the inverse are rounded
FitnessFloat(solution) ==
    LET avg_delay == IF TotalDemand > 0
                     THEN ToFloat(WeightedDelay(solution), TotalDemand)
                     ELSE FloatZero
        load_imbalance == LoadImbalance(EdgeLoad(solution, "A"), EdgeLoad(solution, "B"))
        max_imbalance == Square(Rat(TotalDemand, 2))
        ratio == RatDiv(load_imbalance, max_imbalance)
        normalized_delay == FloatDivInt(avg_delay, MaxDelay)
        normalized_imbalance == IF max_imbalance.n > 0 THEN ToFloat(ratio.n, ratio.d)
                                ELSE FloatZero
        objective == FloatAdd(FloatMul(ToFloat(alpha.n, alpha.d), normalized_delay),
                              FloatMul(ToFloat(beta.n, beta.d), normalized_imbalance))
    IN FloatReciprocal(FloatAdd(objective, Epsilon))

\* sum() of a sequence of floats: added one by one from the left, starting at 0
\* (CPython up to 3.11)
RECURSIVE FloatSum(_)
FloatSum(s) ==
    IF s = <<>> THEN FloatZero
    ELSE FloatAdd(FloatSum(SubSeq(s, 1, Len(s) - 1)), s[Len(s)])

\* line 258: sum(s.fitness for s in population) / len(population)
AvgFitness(pop) ==
    FloatDivInt(FloatSum([i \in DOMAIN pop |-> FitnessFloat(pop[i])]), Len(pop))

\* lines 262-270
HistoryEntry(gen, bf, pop, bs) ==
    [generation |-> gen, best_fitness |-> bf, avg_fitness |-> AvgFitness(pop),
     best_avg_delay |-> bs.avg_delay, best_load_imbalance |-> bs.load_imbalance,
     best_edge_a_load |-> bs.edge_a_load, best_edge_b_load |-> bs.edge_b_load]

\* line 280
EliteSize == Max2(1, pop_size \div 3)

\* a clone count that ignores the fitness ratio of line 285
NumClonesUnscaled(pop, i) == Max2(1, clone_factor)

\* lines 285-286 for the elite at (0-indexed) rank i of the sorted population
NumClones(pop, i) ==
    LET fit_ratio == IF pop[1].fitness.n > 0
                     THEN RatDiv(pop[i + 1].fitness, pop[1].fitness) ELSE R(1)
    IN Max2(1, RatFloor(RatMul(R(clone_factor), fit_ratio)))

(***************************************************************************)
(* Baselines and metrics of SimulationRunner                               *)
(***************************************************************************)
\* _round_robin_baseline (enumerate is 0-based, peer_list is 1-based)
round_robin_baseline ==
    Solution(<<>>, [id \in PeerIds |->
                      LET i == CHOOSE k \in DOMAIN peer_list : peer_list[k] = id
                      IN IF (i - 1) % 2 = 0 THEN "A" ELSE "B"])

\* a baseline that sends every peer to edge A
all_edge_a_baseline == Solution(<<>>, [id \in PeerIds |-> "A"])

\* _nearest_edge_baseline
nearest_edge_baseline ==
    Solution(<<>>, [id \in PeerIds |->
                      IF peers[id].rtt_to_edge_a < peers[id].rtt_to_edge_b
                      THEN "A" ELSE "B"])

\* random.sample raises ValueError when asked for more than there is, or a negative count
BaselineSampleRaises(count) == count < 0 \/ count > Len(peer_list)

\* the Solutions _random_super_peers_baseline(peers, rtt_matrix, count) can return
random_super_peers_baseline(count) ==
    {Solution(sp, nearest_edge_baseline.edge_assignments) : sp \in Sample(count)}

UtilizationCapacity == 10000

\* d_super + 5 of _evaluate_solution_metrics: the table is read directly (lines 142-146)
RunnerP2PDelay(solution, peer_id) ==
    SetMin({Get(rtt_matrix.peer_to_peer, <<peer_id, sp>>,
                Get(rtt_matrix.peer_to_peer, <<sp, peer_id>>, DefaultPeerRtt)) :
            sp \in Range(solution.super_peers)}) + P2POverhead

\* d_edge of _evaluate_solution_metrics: the Peer's stored latency (line 150)
RunnerEdgeDelay(solution, peer_id) ==
    IF AssignedEdge(solution, peer_id) = "A" THEN peers[peer_id].rtt_to_edge_a
    ELSE peers[peer_id].rtt_to_edge_b

\* lines 153-158
RunnerUsesP2P(solution, peer_id) ==
    /\ solution.super_peers # <<>>
    /\ RunnerP2PDelay(solution, peer_id) < RunnerEdgeDelay(solution, peer_id)

RunnerEffectiveDelay(solution, peer_id) ==
    IF RunnerUsesP2P(solution, peer_id) THEN RunnerP2PDelay(solution, peer_id)
    ELSE RunnerEdgeDelay(solution, peer_id)

\* the dict _evaluate_solution_metrics returns (lines 163-184)
evaluate_solution_metrics(solution) ==
    LET total_demand == TotalDemand
        load_a == EdgeLoad(solution, "A")
        load_b == EdgeLoad(solution, "B")
        weighted == SumSeq([i \in DOMAIN peer_list |->
                      RunnerEffectiveDelay(solution, peer_list[i])
                          * peers[peer_list[i]].demand])
        load_avg == Rat(load_a + load_b, 2)
        p2p == {id \in PeerIds : RunnerUsesP2P(solution, id)}
    IN [avg_delay_ms |-> IF total_demand > 0 THEN Rat(weighted, total_demand) ELSE R(0),
        load_imbalance |-> RatMul(Rat(1, 2),
                                  RatAdd(Square(RatSub(R(load_a), load_avg)),
                                         Square(RatSub(R(load_b), load_avg)))),
        edge_a_load_kbps |-> load_a,
        edge_b_load_kbps |-> load_b,
        edge_a_utilization |-> Rat(load_a, UtilizationCapacity),
        edge_b_utilization |-> Rat(load_b, UtilizationCapacity),
        p2p_hit_rate |-> IF Len(peer_list) > 0
                         THEN Rat(Cardinality(p2p), Len(peer_list)) ELSE R(0),
        edge_a_hits |-> Cardinality({id \in PeerIds \ p2p :
                                        AssignedEdge(solution, id) = "A"}),
        edge_b_hits |-> Cardinality({id \in PeerIds \ p2p :
                                        AssignedEdge(solution, id) = "B"}),
        p2p_hits |-> Cardinality(p2p),
        super_peers |-> solution.super_peers,
        num_super_peers |-> Len(solution.super_peers)]

(***************************************************************************)
(* Bounds of the model                                                     *)
(***************************************************************************)
MaxPopSize == 2
MaxSuperPeers == 2
MaxCloneFactor == 2
MaxGenerations == 2
\* bound on (number of peers) * (number of optimize() calls on one engine)
MaxPeerCalls == 2
\* bound on (number of peers) * (configured super-peer count) for direct callers
MaxPeerSuperPeers == 6

(***************************************************************************)
(* Construction                                                            *)
(***************************************************************************)
\* the default of __init__ for mutation_rate (line 67), in percent
DefaultMutationRate == 10

\* __init__ (lines 70-85) on the peers and RTT matrix of net
Construct(net, nsp, a, b, ps, cf, mr, mg) ==
    /\ peers = [id \in {net.peers[i].id : i \in DOMAIN net.peers} |->
                  CHOOSE q \in Range(net.peers) : q.id = id]
    /\ peer_list = [i \in DOMAIN net.peers |-> net.peers[i].id]
    /\ rtt_matrix = net.rtt_matrix
    /\ num_super_peers = nsp
    /\ alpha = a
    /\ beta = b
    /\ pop_size = ps
    /\ clone_factor = cf
    /\ mutation_rate = mr
    /\ max_generations = mg
    /\ generation_history = <<>>

NoProbe == [op |-> "none"]

\* no optimize() call is running
NoRun ==
    /\ population = <<>>
    /\ new_population = <<>>
    /\ best_solution = None
    /\ best_fitness = R(-1)
    /\ generation = 0
    /\ idx = 0
    /\ clones_left = 0
    /\ returned = None
    /\ calls = 0
    /\ sol = None
    /\ probe = NoProbe

\* no Solution object is held by address
NoAlias ==
    /\ heap = <<>>
    /\ original = None
    /\ derived = None
    /\ before = None

\* no run is recorded or replayed
NoTwin ==
    /\ tape = <<>>
    /\ cursor = 0
    /\ first = None
    /\ hash_seed = 0

\* an engine whose caller runs optimize()
InitOptimize ==
    /\ \E net \in {NetOne, NetTwo},
          nsp \in -1..MaxSuperPeers,
          ps \in 0..MaxPopSize,
          cf \in 0..MaxCloneFactor,
          mg \in 0..MaxGenerations :
            Construct(net, nsp, Rat(7, 10), Rat(3, 10), ps, cf, DefaultMutationRate, mg)
    /\ NoRun
    /\ NoAlias
    /\ NoTwin
    /\ pc = "idle"

\* an engine whose caller uses the oracle, the evaluator, the factory and the
\* runner's baselines directly (the defaults of __init__ for the loop's parameters)
InitCaller ==
    /\ \E net \in {NetOne, NetTwo, NetThree, NetFour, NetMeasured, NetIdle},
          nsp \in -1..MaxSuperPeers :
            /\ nsp * Len(net.peers) <= MaxPeerSuperPeers
            /\ Construct(net, nsp, Rat(7, 10), Rat(3, 10), 30, 3, DefaultMutationRate, 100)
    /\ NoRun
    /\ NoAlias
    /\ NoTwin
    /\ pc = "caller"

Init == InitOptimize \/ InitCaller

(***************************************************************************)
(* The caller using the oracle, the factory, the evaluator and the runner  *)
(***************************************************************************)
callerFrame == <<auxVars, netVars, cfgVars, optVars, generation_history, returned, calls>>

\* an id that is not the id of any peer
UnknownPeer == "p0"

\* the oracle is queried on a fresh engine, with ids of peers or not
CallGetPeerRtt ==
    /\ pc = "caller"
    /\ sol = None
    /\ \E i, j \in PeerIds \cup {UnknownPeer} :
          probe' = [op |-> "get_peer_rtt", peer_i |-> i, peer_j |-> j,
                    result |-> get_peer_rtt(i, j)]
    /\ UNCHANGED <<callerFrame, pc, sol>>

CallGetEdgeRtt ==
    /\ pc = "caller"
    /\ sol = None
    /\ \E i \in PeerIds, e \in Edges :
          probe' = [op |-> "get_edge_rtt", peer_id |-> i, edge |-> e,
                    result |-> get_edge_rtt(i, e)]
    /\ UNCHANGED <<callerFrame, pc, sol>>

CallGenerateRandomSolution ==
    /\ pc = "caller"
    /\ IF GenerateRaises
       THEN /\ pc' = "raised"
            /\ UNCHANGED <<sol, probe>>
       ELSE /\ sol' \in generate_random_solution
            /\ probe' = [op |-> "generate_random_solution"]
            /\ pc' = pc
    /\ UNCHANGED callerFrame

CallMutateSolution ==
    /\ pc = "caller"
    /\ sol # None
    /\ sol' \in mutate_solution(sol)
    /\ probe' = [op |-> "mutate_solution", super_peers |-> sol.super_peers]
    /\ UNCHANGED <<callerFrame, pc>>

CallEvaluateSolution ==
    /\ pc = "caller"
    /\ sol # None
    /\ sol' = evaluate_solution(sol)
    /\ probe' = [op |-> "evaluate_solution", result |-> Metrics(sol),
                 effective_delays |-> EffectiveDelays(sol)]
    /\ UNCHANGED <<callerFrame, pc>>

\* simulation_runner.py lines 52-55
RunRoundRobinBaseline ==
    /\ pc = "caller"
    /\ sol' = round_robin_baseline
    /\ probe' = [op |-> "round_robin_baseline",
                 result |-> evaluate_solution_metrics(round_robin_baseline)]
    /\ UNCHANGED <<callerFrame, pc>>

\* simulation_runner.py lines 59-62
RunNearestEdgeBaseline ==
    /\ pc = "caller"
    /\ sol' = nearest_edge_baseline
    /\ probe' = [op |-> "nearest_edge_baseline",
                 result |-> evaluate_solution_metrics(nearest_edge_baseline)]
    /\ UNCHANGED <<callerFrame, pc>>

\* the count run_baseline_comparison passes to _random_super_peers_baseline (line 66)
RunnerSuperPeers == 15

\* simulation_runner.py lines 66-69: the baseline is asked for RunnerSuperPeers
\* super-peers whatever the network, and random.sample raises on fewer peers
RunRandomSuperPeersBaseline ==
    /\ pc = "caller"
    /\ IF BaselineSampleRaises(RunnerSuperPeers)
       THEN /\ pc' = "raised"
            /\ UNCHANGED <<sol, probe>>
       ELSE /\ \E s \in random_super_peers_baseline(RunnerSuperPeers) :
                 /\ sol' = s
                 /\ probe' = [op |-> "random_super_peers_baseline",
                              result |-> evaluate_solution_metrics(s)]
            /\ pc' = pc
    /\ UNCHANGED callerFrame

\* _random_super_peers_baseline called with the super-peer count of the engine
\* instead of RunnerSuperPeers, and scored by _evaluate_solution_metrics
CallRandomSuperPeersBaseline ==
    /\ pc = "caller"
    /\ IF BaselineSampleRaises(num_super_peers)
       THEN /\ pc' = "raised"
            /\ UNCHANGED <<sol, probe>>
       ELSE /\ \E s \in random_super_peers_baseline(num_super_peers) :
                 /\ sol' = s
                 /\ probe' = [op |-> "random_super_peers_baseline",
                              result |-> evaluate_solution_metrics(s)]
            /\ pc' = pc
    /\ UNCHANGED callerFrame

\* simulation_runner.py lines 83-85: the runner's metrics of a Solution of the engine
CallEvaluateSolutionMetrics ==
    /\ pc = "caller"
    /\ sol # None
    /\ probe' = [op |-> "evaluate_solution_metrics",
                 result |-> evaluate_solution_metrics(sol)]
    /\ UNCHANGED <<callerFrame, pc, sol>>

NextCaller ==
    \/ CallGetPeerRtt
    \/ CallGetEdgeRtt
    \/ CallGenerateRandomSolution
    \/ CallMutateSolution
    \/ CallEvaluateSolution
    \/ RunRoundRobinBaseline
    \/ RunNearestEdgeBaseline
    \/ RunRandomSuperPeersBaseline
    \/ CallRandomSuperPeersBaseline
    \/ CallEvaluateSolutionMetrics

(***************************************************************************)
(* optimize()                                                              *)
(***************************************************************************)
OptimizeCall ==
    /\ pc = "idle"
    /\ (calls + 1) * Len(peer_list) <= MaxPeerCalls
    /\ calls' = calls + 1
    /\ pc' = "init"
    /\ returned' = None
    /\ sol' = None
    /\ probe' = NoProbe
    /\ UNCHANGED <<auxVars, netVars, cfgVars, optVars, generation_history>>

\* line 232, one list element per step; generate_random_solution may raise
InitPopulation ==
    /\ pc = "init"
    /\ Len(population) < pop_size
    /\ IF GenerateRaises
       THEN /\ pc' = "raised"
            /\ UNCHANGED population
       ELSE /\ \E s \in generate_random_solution : population' = Append(population, s)
            /\ pc' = pc
    /\ UNCHANGED <<auxVars, netVars, cfgVars, generation_history, new_population, best_solution,
                   best_fitness, generation, idx, clones_left, returned, calls, sol, probe>>

\* lines 234-235
InitDone ==
    /\ pc = "init"
    /\ Len(population) >= pop_size
    /\ best_solution' = None
    /\ best_fitness' = R(-1)
    /\ generation' = 0
    /\ pc' = "loop"
    /\ UNCHANGED <<auxVars, netVars, cfgVars, generation_history, population, new_population,
                   idx, clones_left, returned, calls, sol, probe>>

\* self.best_fitness_history and self.avg_fitness_history (lines 84-85, 259-260):
\* created empty with generation_history and appended to in the same iteration, they
\* hold the two fitness fields of its entries
best_fitness_history ==
    [k \in DOMAIN generation_history |-> generation_history[k].best_fitness]

avg_fitness_history ==
    [k \in DOMAIN generation_history |-> generation_history[k].avg_fitness]

\* lines 243-281: evaluate, track the best, sort, record, start the clonal selection;
\* line 258 raises ZeroDivisionError on an empty population
GenerationHead ==
    /\ pc = "loop"
    /\ generation < max_generations
    /\ \E evaluated \in {EvaluateAll(population)} :
       \E best \in {TrackBest(evaluated, 1, best_fitness, best_solution)},
          sorted \in {SortDesc(evaluated)} :
          /\ population' = sorted
          /\ best_fitness' = best[1]
          /\ best_solution' = best[2]
          /\ IF Len(sorted) = 0
             THEN /\ pc' = "raised"
                  /\ UNCHANGED <<generation_history, new_population, idx, clones_left>>
             ELSE /\ generation_history' =
                        Append(generation_history,
                               HistoryEntry(generation, best[1], sorted, best[2]))
                  /\ new_population' = <<>>
                  /\ idx' = 0
                  /\ clones_left' = NumClones(sorted, 0)
                  /\ pc' = "clone"
    /\ UNCHANGED <<auxVars, netVars, cfgVars, generation, returned, calls, sol, probe>>

\* lines 294-297 once new_population is np: the while loop is entered, or skipped
\* and the next iteration of the for loop starts
FillOrNextGeneration(np) ==
    IF Len(np) < pop_size
    THEN /\ new_population' = np
         /\ pc' = "fill"
         /\ UNCHANGED <<population, generation>>
    ELSE /\ population' = np
         /\ new_population' = <<>>
         /\ generation' = generation + 1
         /\ pc' = "loop"

\* line 291 and the loop heads of lines 283 and 289 once clone is made
AppendClone(clone) ==
    IF clones_left > 1
    THEN /\ new_population' = Append(new_population, clone)
         /\ clones_left' = clones_left - 1
         /\ UNCHANGED <<idx, pc, population, generation>>
    ELSE IF idx + 1 < EliteSize
         THEN /\ new_population' = Append(new_population, clone)
              /\ idx' = idx + 1
              /\ clones_left' = NumClones(population, idx + 1)
              /\ UNCHANGED <<pc, population, generation>>
         ELSE /\ idx' = 0
              /\ clones_left' = 0
              /\ FillOrNextGeneration(Append(new_population, clone))

\* lines 283-291: one mutated clone of population[idx] per step
CloneStep ==
    /\ pc = "clone"
    /\ \E clone \in mutate_solution(population[idx + 1]) : AppendClone(clone)
    /\ UNCHANGED <<auxVars, netVars, cfgVars, generation_history, best_solution,
                   best_fitness, returned, calls, sol, probe>>

\* lines 294-297: one random Solution per step
FillStep ==
    /\ pc = "fill"
    /\ \E s \in generate_random_solution :
          FillOrNextGeneration(Append(new_population, s))
    /\ UNCHANGED <<auxVars, netVars, cfgVars, generation_history, best_solution,
                   best_fitness, idx, clones_left, returned, calls, sol, probe>>

\* lines 299-307; line 302 raises AttributeError when best_solution is None
Return ==
    /\ pc = "loop"
    /\ generation >= max_generations
    /\ IF best_solution = None
       THEN /\ pc' = "raised"
            /\ UNCHANGED <<optVars, returned>>
       ELSE /\ returned' = [best_solution |-> best_solution,
                            history |-> generation_history]
            /\ pc' = "idle"
            /\ population' = <<>>
            /\ new_population' = <<>>
            /\ best_solution' = None
            /\ best_fitness' = R(-1)
            /\ generation' = 0
            /\ idx' = 0
            /\ clones_left' = 0
    /\ UNCHANGED <<auxVars, netVars, cfgVars, generation_history, calls, sol, probe>>

NextOptimize ==
    \/ OptimizeCall
    \/ InitPopulation
    \/ InitDone
    \/ GenerationHead
    \/ CloneStep
    \/ FillStep
    \/ Return

Next == NextCaller \/ NextOptimize

\* every engine and every caller
Spec == Init /\ [][Next]_vars

\* an engine on a single peer whose caller runs optimize()
InitRunning ==
    /\ \E nsp \in -1..MaxSuperPeers,
          ps \in 0..MaxPopSize,
          cf \in 0..MaxCloneFactor,
          mg \in 0..MaxGenerations :
            Construct(NetOne, nsp, Rat(7, 10), Rat(3, 10), ps, cf, DefaultMutationRate, mg)
    /\ NoRun
    /\ NoAlias
    /\ NoTwin
    /\ pc = "idle"

\* the steps of optimize() that make or score Solutions
Work ==
    \/ InitPopulation
    \/ GenerationHead
    \/ CloneStep
    \/ FillStep

\* the states in which one of these steps can be taken
Working ==
    \/ pc = "init" /\ Len(population) < pop_size
    \/ pc = "loop" /\ generation < max_generations
    \/ pc \in {"clone", "fill"}

\* a running optimize() call takes its next step: the code is sequential and waits
\* for nothing.  Weak fairness of Work is written out, with Working for its enabling
\* condition
SpecRunning ==
    /\ InitRunning
    /\ [][NextOptimize]_vars
    /\ WF_vars(InitDone \/ Return)
    /\ ([]<>(~Working) \/ []<><<Work>>_vars)

\* an engine whose population is large enough for several elites per generation
InitElite ==
    /\ \E ps \in (3 * MaxPopSize)..(3 * MaxPopSize + 1), cf \in 0..(MaxCloneFactor + 1) :
          Construct(NetOne, 0, Rat(7, 10), Rat(3, 10), ps, cf, DefaultMutationRate, 1)
    /\ NoRun
    /\ NoAlias
    /\ NoTwin
    /\ pc = "idle"

\* optimize() with several elites
SpecElite == InitElite /\ [][NextOptimize]_vars

\* the callers of the oracle, the evaluator, the factory and the runner only
SpecCaller == InitCaller /\ [][NextCaller]_vars

(***************************************************************************)
(* Solutions as objects: the list and the dict of a Solution are objects   *)
(* on a heap, a Solution holds their addresses, and an assignment to an    *)
(* element changes the object in place                                     *)
(***************************************************************************)
\* a new object holding value is placed behind the objects of h
Allocate(h, value) == Append(h, value)

\* a Solution object whose list and dict are the objects at these addresses
SolutionAt(super_peers_at, edge_assignments_at) ==
    [super_peers |-> super_peers_at, edge_assignments |-> edge_assignments_at]

\* what the list and the dict of the Solution object s hold in h
Contents(h, s) ==
    [super_peers |-> h[s.super_peers], edge_assignments |-> h[s.edge_assignments]]

\* a Solution built on the list and the dict of its argument, without any copy
share_solution_objects(h, solution) == [heap |-> h, solution |-> solution]

\* clone_solution on objects: list.copy() and dict.copy() make two new objects
clone_solution_objects(h, solution) ==
    [heap |-> Allocate(Allocate(h, h[solution.super_peers]),
                       h[solution.edge_assignments]),
     solution |-> SolutionAt(Len(h) + 1, Len(h) + 2)]

\* mutate_solution on objects: the heaps and the Solution it can return; the
\* assignments of lines 214 and 220 change the objects of `mutated` in place
mutate_solution_objects(h, solution) ==
    LET cloned == clone_solution_objects(h, solution)
        mutated == cloned.solution
    IN {[heap |-> [cloned.heap EXCEPT ![mutated.super_peers] = sp,
                                       ![mutated.edge_assignments] = ea],
         solution |-> mutated] :
           sp \in MutatedSuperPeers(cloned.heap[mutated.super_peers]),
           ea \in MutatedEdgeAssignments(cloned.heap[mutated.edge_assignments])}

\* a session in which the caller holds Solutions by address
InitAlias ==
    /\ \E net \in {NetTwo, NetThree}, nsp \in 1..MaxSuperPeers :
          Construct(net, nsp, Rat(7, 10), Rat(3, 10), 30, 3, DefaultMutationRate, 100)
    /\ NoRun
    /\ NoAlias
    /\ NoTwin
    /\ pc = "alias"

aliasFrame == <<twinVars, netVars, cfgVars, optVars, generation_history, returned,
                calls, sol, probe, pc>>

\* s = generate_random_solution(): a new list and a new dict
MakeOriginal ==
    /\ pc = "alias"
    /\ original = None
    /\ \E s \in generate_random_solution :
          /\ heap' = Allocate(Allocate(heap, s.super_peers), s.edge_assignments)
          /\ original' = SolutionAt(Len(heap) + 1, Len(heap) + 2)
          /\ before' = [super_peers |-> s.super_peers,
                        edge_assignments |-> s.edge_assignments]
    /\ UNCHANGED <<aliasFrame, derived>>

\* c = clone_solution(s)
CloneOriginal ==
    /\ pc = "alias"
    /\ original # None
    /\ derived = None
    /\ \E c \in {clone_solution_objects(heap, original)} :
          /\ heap' = c.heap
          /\ derived' = c.solution
    /\ UNCHANGED <<aliasFrame, original, before>>

\* c = mutate_solution(s)
MutateOriginal ==
    /\ pc = "alias"
    /\ original # None
    /\ derived = None
    /\ \E c \in mutate_solution_objects(heap, original) :
          /\ heap' = c.heap
          /\ derived' = c.solution
    /\ UNCHANGED <<aliasFrame, original, before>>

\* a later change to the returned Solution: c.super_peers[i] = p
WriteSuperPeer ==
    /\ pc = "alias"
    /\ derived # None
    /\ \E i \in DOMAIN heap[derived.super_peers], p \in PeerIds :
          heap' = [heap EXCEPT ![derived.super_peers][i] = p]
    /\ UNCHANGED <<aliasFrame, original, derived, before>>

\* a later change to the returned Solution: c.edge_assignments[p] = e
WriteEdgeAssignment ==
    /\ pc = "alias"
    /\ derived # None
    /\ \E p \in PeerIds, e \in Edges :
          heap' = [heap EXCEPT ![derived.edge_assignments] =
                      [q \in DOMAIN @ \cup {p} |-> IF q = p THEN e ELSE @[q]]]
    /\ UNCHANGED <<aliasFrame, original, derived, before>>

NextAlias ==
    \/ MakeOriginal
    \/ CloneOriginal
    \/ MutateOriginal
    \/ WriteSuperPeer
    \/ WriteEdgeAssignment

\* the callers that hold Solutions by address
SpecAlias == InitAlias /\ [][NextAlias]_vars

(***************************************************************************)
(* Two runs of optimize() on fresh engines: the first run's draws are      *)
(* recorded and fed to the second, which runs in another process           *)
(***************************************************************************)
\* the engines of the two runs: three peers with one super-peer and a population of
\* one, and one peer with a population of two, over two generations
InitTwin ==
    /\ \/ Construct(NetThree, 1, Rat(7, 10), Rat(3, 10), 1, 1, DefaultMutationRate, 2)
       \/ Construct(NetOne, 0, Rat(7, 10), Rat(3, 10), 2, 1, DefaultMutationRate, 2)
    /\ population = <<>>
    /\ new_population = <<>>
    /\ best_solution = None
    /\ best_fitness = R(-1)
    /\ generation = 0
    /\ idx = 0
    /\ clones_left = 0
    /\ returned = None
    /\ calls = 1
    /\ sol = None
    /\ probe = NoProbe
    /\ NoAlias
    /\ NoTwin
    /\ pc = "init"

\* the outcomes the next call can draw: any in the first run, the recorded ones in
\* the second
Drawn(outcomes) ==
    IF first = None THEN outcomes
    ELSE IF cursor < Len(tape) THEN {tape[cursor + 1]} ELSE {}

\* the first run's draw is recorded, the second run's is taken off the record
Consume(d) ==
    /\ IF first = None
       THEN /\ tape' = Append(tape, d)
            /\ cursor' = cursor
       ELSE /\ tape' = tape
            /\ cursor' = cursor + 1
    /\ UNCHANGED <<first, hash_seed>>

\* line 232 with the draws of generate_random_solution made explicit
DrawInitPopulation ==
    /\ pc = "init"
    /\ Len(population) < pop_size
    /\ IF GenerateRaises
       THEN /\ pc' = "raised"
            /\ UNCHANGED <<population, twinVars>>
       ELSE /\ \E d \in Drawn(GenerateDraws) :
                 /\ population' = Append(population, generate_random_solution_from(d))
                 /\ Consume(d)
            /\ pc' = pc
    /\ UNCHANGED <<aliasVars, netVars, cfgVars, generation_history, new_population,
                   best_solution, best_fitness, generation, idx, clones_left, returned,
                   calls, sol, probe>>

\* lines 283-291 with the draws of mutate_solution made explicit
DrawCloneStep ==
    /\ pc = "clone"
    /\ \E d \in Drawn(MutateDraws(population[idx + 1])) :
          /\ AppendClone(mutate_solution_from(population[idx + 1], d))
          /\ Consume(d)
    /\ UNCHANGED <<aliasVars, netVars, cfgVars, generation_history, best_solution,
                   best_fitness, returned, calls, sol, probe>>

\* lines 294-297 with the draws of generate_random_solution made explicit
DrawFillStep ==
    /\ pc = "fill"
    /\ \E d \in Drawn(GenerateDraws) :
          /\ FillOrNextGeneration(Append(new_population, generate_random_solution_from(d)))
          /\ Consume(d)
    /\ UNCHANGED <<aliasVars, netVars, cfgVars, generation_history, best_solution,
                   best_fitness, idx, clones_left, returned, calls, sol, probe>>

\* the first run has returned: a fresh engine with the same peers, distance table
\* and configuration is constructed in another process and optimize() is called on it
SecondRun ==
    /\ pc = "idle"
    /\ returned # None
    /\ first = None
    /\ first' = returned
    /\ returned' = None
    /\ generation_history' = <<>>
    /\ hash_seed' = hash_seed + 1
    /\ cursor' = 0
    /\ pc' = "init"
    /\ UNCHANGED <<aliasVars, netVars, cfgVars, optVars, tape, calls, sol, probe>>

NextTwin ==
    \/ DrawInitPopulation
    \/ InitDone
    \/ GenerationHead
    \/ DrawCloneStep
    \/ DrawFillStep
    \/ Return
    \/ SecondRun

\* two runs on the same random draws
SpecTwin == InitTwin /\ [][NextTwin]_vars

(***************************************************************************)
(* Properties                                                              *)
(***************************************************************************)
Last(s) == s[Len(s)]

NoDuplicates(s) == \A i, j \in DOMAIN s : i # j => s[i] # s[j]

\* the four-peer scenario: p1..p4 with demand 100 each
FourPeerScenario ==
    /\ peer_list = <<"p1", "p2", "p3", "p4">>
    /\ \A id \in PeerIds : peers[id].demand = 100

\* every Solution the factory, the mutation operator or optimize() holds or returned
HeldSolutions ==
    Range(population) \cup Range(new_population)
        \cup (IF sol = None THEN {} ELSE {sol})
        \cup (IF best_solution = None THEN {} ELSE {best_solution})
        \cup (IF returned = None THEN {} ELSE {returned.best_solution})

\* C1: in the history optimize() returns, best_fitness never decreases from one
\* GenerationRecord to the next.
C1_BestFitnessNeverDecreases ==
    returned # None =>
        \A g \in 1..(Len(returned.history) - 1) :
            RatLeq(returned.history[g].best_fitness,
                   returned.history[g + 1].best_fitness)

\* C2: the Solution optimize() returns carries its evaluated metrics: its fitness is
\* the best_fitness of the last GenerationRecord and its avg_delay, load_imbalance,
\* edge_a_load and edge_b_load are the ones evaluate_solution computes for it.
C2_ReturnedSolutionCarriesMetrics ==
    returned # None =>
        /\ returned.best_solution.fitness = Last(returned.history).best_fitness
        /\ returned.best_solution.avg_delay = Metrics(returned.best_solution).avg_delay
        /\ returned.best_solution.load_imbalance
               = Metrics(returned.best_solution).load_imbalance
        /\ returned.best_solution.edge_a_load
               = Metrics(returned.best_solution).edge_a_load
        /\ returned.best_solution.edge_b_load
               = Metrics(returned.best_solution).edge_b_load

\* C3: every GenerationRecord holds the auxiliary metrics of the best-ever Solution
\* of its generation: once a generation is recorded, best_avg_delay,
\* best_load_imbalance, best_edge_a_load and best_edge_b_load of the newest record
\* are what evaluate_solution yields for the best-ever Solution.
C3_RecordHoldsBestMetrics ==
    best_solution # None /\ generation_history # <<>> =>
        /\ Last(generation_history).best_avg_delay = Metrics(best_solution).avg_delay
        /\ Last(generation_history).best_load_imbalance
               = Metrics(best_solution).load_imbalance
        /\ Last(generation_history).best_edge_a_load = Metrics(best_solution).edge_a_load
        /\ Last(generation_history).best_edge_b_load = Metrics(best_solution).edge_b_load

\* C4: the runner scores a Solution as the evaluator does: avg_delay_ms,
\* load_imbalance, edge_a_load_kbps and edge_b_load_kbps of
\* _evaluate_solution_metrics equal avg_delay, load_imbalance, edge_a_load and
\* edge_b_load of evaluate_solution for the same Solution.
C4_RunnerScoresAsEvaluator ==
    probe.op \in {"evaluate_solution_metrics", "round_robin_baseline",
                  "nearest_edge_baseline", "random_super_peers_baseline"} =>
        /\ probe.result.avg_delay_ms = Metrics(sol).avg_delay
        /\ probe.result.load_imbalance = Metrics(sol).load_imbalance
        /\ probe.result.edge_a_load_kbps = Metrics(sol).edge_a_load
        /\ probe.result.edge_b_load_kbps = Metrics(sol).edge_b_load

\* C5: the distance oracle is symmetric: whenever (i, j) or (j, i) is a key of the
\* peer-to-peer table, get_peer_rtt(i, j) equals get_peer_rtt(j, i).
C5_OracleSymmetric ==
    /\ probe.op = "get_peer_rtt"
    /\ \/ <<probe.peer_i, probe.peer_j>> \in DOMAIN rtt_matrix.peer_to_peer
       \/ <<probe.peer_j, probe.peer_i>> \in DOMAIN rtt_matrix.peer_to_peer
    => probe.result = get_peer_rtt(probe.peer_j, probe.peer_i)

\* evaluate_solution has just scored a Solution of the four-peer scenario that has
\* no super-peer and assigns all four peers to edge A
AllOnEdgeAEvaluated ==
    /\ probe.op = "evaluate_solution"
    /\ FourPeerScenario
    /\ sol.super_peers = <<>>
    /\ DOMAIN sol.edge_assignments = PeerIds
    /\ \A id \in PeerIds : sol.edge_assignments[id] = "A"

\* C6 as stated: in the four-peer scenario the Solution that assigns all four peers
\* to edge A evaluates to edge_a_load 400, edge_b_load 0 and load_imbalance 10000.
C6_AllOnEdgeAImbalance10000 ==
    AllOnEdgeAEvaluated =>
        /\ probe.result.edge_a_load = 400 /\ sol.edge_a_load = 400
        /\ probe.result.edge_b_load = 0 /\ sol.edge_b_load = 0
        /\ probe.result.load_imbalance = R(10000) /\ sol.load_imbalance = R(10000)

\* C6, amended: in the four-peer scenario the Solution that assigns all four peers
\* to edge A evaluates to edge_a_load 400, edge_b_load 0 and load_imbalance 40000,
\* which is 0.5 * ((400 - 200)^2 + (0 - 200)^2).
C6_AllOnEdgeAImbalance40000 ==
    AllOnEdgeAEvaluated =>
        /\ probe.result.edge_a_load = 400 /\ sol.edge_a_load = 400
        /\ probe.result.edge_b_load = 0 /\ sol.edge_b_load = 0
        /\ probe.result.load_imbalance = R(40000) /\ sol.load_imbalance = R(40000)

C6_Witness ==
    AllOnEdgeAEvaluated /\ sol.edge_a_load = 400 /\ sol.load_imbalance = R(40000)

\* the runner has just built the nearest-edge baseline of the four-peer scenario in
\* which p1 and p2 are strictly closer to edge A, p3 and p4 strictly closer to edge B
NearestEdgeOfFourPeers ==
    /\ probe.op = "nearest_edge_baseline"
    /\ FourPeerScenario
    /\ \A id \in {"p1", "p2"} : peers[id].rtt_to_edge_a < peers[id].rtt_to_edge_b
    /\ \A id \in {"p3", "p4"} : peers[id].rtt_to_edge_b < peers[id].rtt_to_edge_a

\* C7: in the four-peer scenario the nearest-edge baseline has no super-peer and
\* evaluates to edge_a_load = edge_b_load = 200 and load_imbalance = 0, by
\* evaluate_solution and by the runner's metrics alike.
C7_NearestEdgeBalanced ==
    NearestEdgeOfFourPeers =>
        /\ sol.super_peers = <<>>
        /\ Metrics(sol).edge_a_load = 200 /\ Metrics(sol).edge_b_load = 200
        /\ Metrics(sol).load_imbalance = R(0)
        /\ probe.result.edge_a_load_kbps = 200 /\ probe.result.edge_b_load_kbps = 200
        /\ probe.result.load_imbalance = R(0)

C7_Witness ==
    NearestEdgeOfFourPeers /\ evaluate_solution(sol).edge_a_load = 200
        /\ evaluate_solution(sol).load_imbalance = R(0)

\* C8: totality: every Solution made by generate_random_solution or mutate_solution,
\* every member of the population and the best-ever Solution optimize() tracks and
\* returns has an edge-assignment mapping whose key set is exactly the set of peer ids.
C8_EdgeAssignmentsTotal ==
    \A s \in HeldSolutions : DOMAIN s.edge_assignments = PeerIds

\* a mutated Solution over three or more peers, one of them sent to its farther edge
C8_Witness ==
    /\ probe.op = "mutate_solution"
    /\ Len(peer_list) >= 3
    /\ DOMAIN sol.edge_assignments = PeerIds
    /\ \E id \in PeerIds : sol.edge_assignments[id] = OtherEdge(CloserEdge(id))

\* C9: subset invariant: in every Solution made by generate_random_solution, by
\* mutate_solution calls and by optimize() (the factory makes none when the
\* configured count is negative), the super-peer list holds only peer ids, holds no
\* duplicate, and is at most min(num_super_peers, number of peers) long.
C9_SuperPeersSubset ==
    Min2(num_super_peers, Len(peer_list)) >= 0 =>
        \A s \in HeldSolutions :
            /\ Range(s.super_peers) \subseteq PeerIds
            /\ NoDuplicates(s.super_peers)
            /\ Len(s.super_peers) <= Min2(num_super_peers, Len(peer_list))

\* a mutated Solution with two distinct super-peers
C9_Witness ==
    /\ probe.op = "mutate_solution"
    /\ Len(sol.super_peers) = 2
    /\ sol.super_peers[1] # sol.super_peers[2]
    /\ Len(peer_list) > 2

\* C10: generate_random_solution returns exactly min(num_super_peers, number of
\* peers) distinct super-peers; with 2 peers and num_super_peers = 1 that is exactly 1.
C10_ExactSuperPeerCount ==
    probe.op = "generate_random_solution" =>
        /\ Len(sol.super_peers) = Min2(num_super_peers, Len(peer_list))
        /\ NoDuplicates(sol.super_peers)
        /\ Range(sol.super_peers) \subseteq PeerIds
        /\ (Len(peer_list) = 2 /\ num_super_peers = 1 => Len(sol.super_peers) = 1)

\* the factory has answered on 2 peers with one super-peer configured
C10_Witness ==
    /\ probe.op = "generate_random_solution"
    /\ Len(peer_list) = 2
    /\ num_super_peers = 1
    /\ Len(sol.super_peers) = 1

\* evaluate_solution has just scored a well-formed Solution: a total edge assignment
\* over {A, B} and super-peers drawn from the peers
WellFormedEvaluated ==
    /\ probe.op = "evaluate_solution"
    /\ DOMAIN sol.edge_assignments = PeerIds
    /\ \A id \in PeerIds : sol.edge_assignments[id] \in Edges
    /\ Range(sol.super_peers) \subseteq PeerIds

\* C11: fitness positivity: evaluate_solution returns, and caches, a fitness
\* strictly greater than 0 for every well-formed Solution.
C11_FitnessPositive ==
    WellFormedEvaluated =>
        /\ RatLess(R(0), probe.result.fitness)
        /\ RatLess(R(0), sol.fitness)

\* a Solution of a network without demand, scored at the objective 0
C11_Witness ==
    /\ WellFormedEvaluated
    /\ TotalDemand = 0
    /\ sol.fitness = R(EpsilonInverse)

\* C12: clone independence: the Solution clone_solution(s) or mutate_solution(s)
\* returns shares neither its super-peer list nor its edge-assignment dict with s,
\* and after the call, and after any later change to the returned Solution, the
\* super-peer list and the edge assignments of s are what they were.
C12_CloneIndependent ==
    /\ original # None =>
          /\ heap[original.super_peers] = before.super_peers
          /\ heap[original.edge_assignments] = before.edge_assignments
    /\ derived # None =>
          {derived.super_peers, derived.edge_assignments}
              \cap {original.super_peers, original.edge_assignments} = {}

\* the returned Solution now differs from s in its list and in its dict, and s is intact
C12_Witness ==
    /\ derived # None
    /\ heap[derived.super_peers] # heap[original.super_peers]
    /\ heap[derived.edge_assignments] # heap[original.edge_assignments]
    /\ Contents(heap, original) = before

\* C13: determinism: a second run of optimize() on a fresh engine with the same
\* peers, distance table and configuration, fed the random draws of the first,
\* returns the same GenerationRecords and the same best Solution (the same super-peer
\* list in the same order, the same edge assignments).
C13_Deterministic ==
    first # None /\ returned # None =>
        /\ returned.history = first.history
        /\ returned.best_solution.super_peers = first.best_solution.super_peers
        /\ returned.best_solution.edge_assignments = first.best_solution.edge_assignments
        /\ returned.best_solution = first.best_solution

\* both runs have returned, the second in another process after taking every
\* recorded draw, a super-peer having been replaced by one of two candidates
C13_Witness ==
    /\ first # None
    /\ returned # None
    /\ hash_seed # 0
    /\ cursor = Len(tape)
    /\ \E k \in DOMAIN tape : "choice" \in DOMAIN tape[k] /\ tape[k].choice = 2
    /\ Len(returned.history) = max_generations

\* C14: every call of optimize(), a repeated call on the same engine included,
\* returns a history of exactly max_generations GenerationRecords whose k-th record
\* (0-indexed) has generation index k.
C14_HistoryOnePerGeneration ==
    returned # None =>
        /\ Len(returned.history) = max_generations
        /\ \A k \in DOMAIN returned.history : returned.history[k].generation = k - 1

\* C15: optimize() on a non-empty peer set with pop_size <= 0 and
\* max_generations >= 1 completes without raising an error.
C15_EmptyPopulationDegrades ==
    pop_size <= 0 /\ Len(peer_list) > 0 /\ max_generations >= 1 => pc # "raised"

\* C16: with a negative num_super_peers, generate_random_solution raises no error and
\* returns a Solution with an empty super-peer list and a total edge assignment.
C16_NegativeCountDegrades ==
    [][num_super_peers < 0 /\ CallGenerateRandomSolution =>
          /\ pc' # "raised"
          /\ sol'.super_peers = <<>>
          /\ DOMAIN sol'.edge_assignments = PeerIds]_vars

\* the position in the population, as the loop of lines 245-252 scans it, of the
\* first member of the highest fitness
FirstSeenBest(pop) ==
    CHOOSE i \in DOMAIN pop :
        /\ \A j \in DOMAIN pop : RatLeq(Metrics(pop[j]).fitness, Metrics(pop[i]).fitness)
        /\ \A j \in 1..(i - 1) : RatLess(Metrics(pop[j]).fitness, Metrics(pop[i]).fitness)

\* C17: best-ever tracking is strict and first-seen-wins: a generation replaces the
\* best-ever Solution only when a member's fitness is strictly greater than the
\* best-ever fitness, and then by the first member seen with the highest fitness; when
\* no member exceeds it (equal fitness included) the best-ever Solution stays.
C17_StrictFirstSeenWins ==
    [][pc = "loop" /\ pc' = "clone" =>
          IF \E i \in DOMAIN population :
                 RatLess(best_fitness, Metrics(population[i]).fitness)
          THEN /\ best_fitness' = Metrics(population[FirstSeenBest(population)]).fitness
               /\ best_solution'.super_peers
                      = population[FirstSeenBest(population)].super_peers
               /\ best_solution'.edge_assignments
                      = population[FirstSeenBest(population)].edge_assignments
          ELSE /\ best_fitness' = best_fitness
               /\ best_solution' = best_solution]_vars

\* two members of equal, highest fitness and different edge assignments were ranked,
\* and the best-ever Solution is one that neither of them replaced
C17_Witness ==
    /\ pc = "clone"
    /\ Len(population) >= 2
    /\ population[1].fitness = population[2].fitness
    /\ population[1].edge_assignments # population[2].edge_assignments
    /\ best_fitness = population[1].fitness
    /\ generation >= 1

\* C18: at the start of every generation the population holds exactly pop_size
\* Solutions, for pop_size >= 1 and clone_factor >= 1.
C18_PopulationSizeConstant ==
    pc = "loop" /\ pop_size >= 1 /\ clone_factor >= 1 => Len(population) = pop_size

\* max(1, floor(clone_factor * fitness_r / fitness_0)) for the member at (0-indexed)
\* rank r of the ranked population
ExpectedClones(r) ==
    Max2(1, RatFloor(RatMul(R(clone_factor),
                            RatDiv(population[r + 1].fitness, population[1].fitness))))

\* while the elites are cloned: the elite is one of the first M = max(1, pop_size // 3)
\* members, no member behind the first M is fitter than one of them, and the clones
\* made and still to make are those of the elites up to the current one
ElitesCloned ==
    pc = "clone" =>
        /\ idx + 1 <= Max2(1, pop_size \div 3)
        /\ \A i \in 1..Max2(1, pop_size \div 3) :
              \A j \in (Max2(1, pop_size \div 3) + 1)..Len(population) :
                  RatLeq(population[j].fitness, population[i].fitness)
        /\ Len(new_population) + clones_left
               = SumSeq([r \in 1..(idx + 1) |-> ExpectedClones(r - 1)])
        /\ clones_left >= 1
        /\ \A r \in 0..idx : /\ ExpectedClones(r) >= 1
                             /\ ExpectedClones(r) <= Max2(1, clone_factor)
        /\ ExpectedClones(0) = Max2(1, clone_factor)

\* C19: in each generation exactly M = max(1, pop_size // 3) Solutions are cloned, the
\* M fittest of the population; the elite at rank r yields
\* max(1, floor(clone_factor * fitness_r / fitness_0)) mutated clones, at least 1 and
\* at most max(1, clone_factor), the top-ranked elite exactly max(1, clone_factor); the
\* cloning ends with the last clone of the M-th elite.
C19_ElitesAndCloneCounts ==
    /\ []ElitesCloned
    /\ [][pc = "clone" /\ pc' # "clone" =>
             idx + 1 = Max2(1, pop_size \div 3) /\ clones_left = 1]_vars

\* the second of two elites is less fit than the first and gets fewer clones
C19_Witness ==
    /\ pc = "clone"
    /\ Max2(1, pop_size \div 3) = 2
    /\ idx = 1
    /\ RatLess(population[2].fitness, population[1].fitness)
    /\ ExpectedClones(1) < ExpectedClones(0)
    /\ clones_left = 1
    /\ Len(new_population) = ExpectedClones(0) + ExpectedClones(1) - 1

\* C20: no stale Solution is ranked: when the population is sorted and the elites are
\* selected, the cached fitness of every member is the fitness evaluate_solution
\* computes from its super-peer list and edge assignments, and the ranking follows it.
C20_NoStaleRanked ==
    pc = "clone" =>
        /\ \A i \in DOMAIN population :
              population[i].fitness = Metrics(population[i]).fitness
        /\ \A i \in 1..(Len(population) - 1) :
              RatLeq(Metrics(population[i + 1]).fitness, Metrics(population[i]).fitness)

\* a later generation, whose members were made by mutate_solution with fitness 0.0,
\* has been ranked
C20_Witness ==
    /\ pc = "clone"
    /\ generation >= 1
    /\ Len(population) >= 2
    /\ \A i \in DOMAIN population :
          /\ RatLess(R(0), population[i].fitness)
          /\ population[i].fitness = Metrics(population[i]).fitness
    /\ RatLess(population[2].fitness, population[1].fitness)

\* d is min(P + 5, E) for the peer: P the least get_peer_rtt to a super-peer of the
\* Solution (no P without super-peers), E the get_edge_rtt of the peer's assigned edge
IsMinOfP2PAndEdge(d, solution, peer_id) ==
    LET E == get_edge_rtt(peer_id, solution.edge_assignments[peer_id])
    IN /\ d <= E
       /\ \A sp \in Range(solution.super_peers) :
             d <= get_peer_rtt(peer_id, sp) + P2POverhead
       /\ \/ d = E
          \/ \E sp \in Range(solution.super_peers) :
                d = get_peer_rtt(peer_id, sp) + P2POverhead

\* C21: for every peer, the delay evaluate_solution uses is min(P + 5, E), where P is
\* the minimum get_peer_rtt(peer, sp) over the Solution's super-peers (the delay is E
\* when there is none) and E is get_edge_rtt for the peer's assigned edge; avg_delay,
\* returned and cached, is the demand-weighted mean of these delays.
C21_DelayIsMinOfP2PAndEdge ==
    WellFormedEvaluated =>
        /\ \A i \in DOMAIN peer_list :
              /\ probe.effective_delays[i][1] = peer_list[i]
              /\ IsMinOfP2PAndEdge(probe.effective_delays[i][2], sol, peer_list[i])
              /\ probe.effective_delays[i][3] = peers[peer_list[i]].demand
        /\ TotalDemand > 0 =>
              /\ probe.result.avg_delay
                     = Rat(SumSeq([i \in DOMAIN peer_list |->
                                     probe.effective_delays[i][2]
                                         * probe.effective_delays[i][3]]),
                           SumSeq([i \in DOMAIN peer_list |->
                                     probe.effective_delays[i][3]]))
              /\ sol.avg_delay = probe.result.avg_delay

\* three peers and the super-peer p1: p2 is served over P2P (30 + 5 < its edge), p3 by
\* its edge (80 + 5 is more), and the weighted mean (2*5 + 2*35 + 4*30) / 8 is 25
C21_Witness ==
    /\ WellFormedEvaluated
    /\ Len(peer_list) = 3
    /\ sol.super_peers = <<"p1">>
    /\ sol.edge_assignments["p3"] = "B"
    /\ probe.effective_delays[2][2] = get_peer_rtt("p2", "p1") + P2POverhead
    /\ probe.effective_delays[2][2] < get_edge_rtt("p2", sol.edge_assignments["p2"])
    /\ probe.effective_delays[3][2] = get_edge_rtt("p3", "B")
    /\ probe.effective_delays[3][2] < get_peer_rtt("p3", "p1") + P2POverhead
    /\ sol.avg_delay = R(25)

\* the sum of the demands of the peers the Solution assigns to the edge
DemandAssignedTo(solution, edge) ==
    SumSeq([i \in DOMAIN peer_list |->
              IF solution.edge_assignments[peer_list[i]] = edge
              THEN peers[peer_list[i]].demand ELSE 0])

\* the super-peer lists of at most two entries, duplicates and all
SuperPeerLists == UNION {[1..k -> PeerIds] : k \in 0..2}

\* C22: load accounting follows the assigned edge only: after evaluate_solution,
\* edge_a_load is the sum of the demands of the peers assigned to A and edge_b_load the
\* sum for B, so that the two add up to the total demand, and the same edge
\* assignments under any other super-peer list evaluate to the same two loads.
C22_LoadFollowsAssignedEdge ==
    WellFormedEvaluated =>
        /\ sol.edge_a_load = DemandAssignedTo(sol, "A")
        /\ sol.edge_b_load = DemandAssignedTo(sol, "B")
        /\ probe.result.edge_a_load = sol.edge_a_load
        /\ probe.result.edge_b_load = sol.edge_b_load
        /\ sol.edge_a_load + sol.edge_b_load
               = SumSeq([i \in DOMAIN peer_list |-> peers[peer_list[i]].demand])
        /\ \A sp \in SuperPeerLists :
              /\ evaluate_solution(Solution(sp, sol.edge_assignments)).edge_a_load
                     = sol.edge_a_load
              /\ evaluate_solution(Solution(sp, sol.edge_assignments)).edge_b_load
                     = sol.edge_b_load

\* two peers, both served over P2P by the super-peer p1 (5 ms and 15 ms), and still
\* the demand 2 of p1 is counted on its edge A and the demand 4 of p2 on its edge B
C22_Witness ==
    /\ WellFormedEvaluated
    /\ peer_list = <<"p1", "p2">>
    /\ sol.super_peers = <<"p1">>
    /\ sol.edge_assignments = ("p1" :> "A") @@ ("p2" :> "B")
    /\ probe.effective_delays[1][2] < get_edge_rtt("p1", "A")
    /\ probe.effective_delays[2][2] < get_edge_rtt("p2", "B")
    /\ sol.edge_a_load = 2
    /\ sol.edge_b_load = 4
    /\ evaluate_solution(Solution(<<>>, sol.edge_assignments)).edge_b_load = 4

\* C23: get_peer_rtt never fails and returns: 0 when i = j (even if the table holds an
\* entry for (i, i)); otherwise the table value for (i, j) if present, else the value
\* for (j, i) if present, else the default 100.
C23_PeerRttCases ==
    probe.op = "get_peer_rtt" =>
        LET i == probe.peer_i
            j == probe.peer_j
            table == rtt_matrix.peer_to_peer
        IN /\ probe.result \in Nat
           /\ i = j => probe.result = 0
           /\ i # j /\ <<i, j>> \in DOMAIN table => probe.result = table[<<i, j>>]
           /\ i # j /\ <<i, j>> \notin DOMAIN table /\ <<j, i>> \in DOMAIN table
                 => probe.result = table[<<j, i>>]
           /\ i # j /\ <<i, j>> \notin DOMAIN table /\ <<j, i>> \notin DOMAIN table
                 => probe.result = 100

\* the distance of a peer to itself was asked for, the table holding 7 ms for the pair
C23_Witness ==
    /\ probe.op = "get_peer_rtt"
    /\ probe.peer_i = probe.peer_j
    /\ <<probe.peer_i, probe.peer_i>> \in DOMAIN rtt_matrix.peer_to_peer
    /\ rtt_matrix.peer_to_peer[<<probe.peer_i, probe.peer_i>>] = 7
    /\ probe.result = 0

\* evaluate_solution has just scored a Solution on peers that all demand 0
IdleEvaluated ==
    /\ probe.op = "evaluate_solution"
    /\ \A id \in PeerIds : peers[id].demand = 0

\* C24: zero total demand is handled by guards: when every peer's demand is 0,
\* evaluate_solution returns (and caches) avg_delay = 0, load_imbalance = 0 and both
\* loads 0, and with the normalized imbalance taken as 0 the fitness is
\* 1/epsilon = 1000000, the same for every super-peer list and edge assignment.
C24_ZeroDemandGuarded ==
    IdleEvaluated =>
        /\ probe.result.avg_delay = R(0) /\ sol.avg_delay = R(0)
        /\ probe.result.load_imbalance = R(0) /\ sol.load_imbalance = R(0)
        /\ probe.result.edge_a_load = 0 /\ probe.result.edge_b_load = 0
        /\ probe.result.fitness = R(1000000) /\ sol.fitness = R(1000000)
        /\ \A sp \in SuperPeerLists, ea \in [PeerIds -> Edges] :
              evaluate_solution(Solution(sp, ea)).fitness = sol.fitness

\* a Solution with a super-peer and both edges in use was scored on idle peers whose
\* delays are not 0
C24_Witness ==
    /\ IdleEvaluated
    /\ Len(sol.super_peers) >= 1
    /\ \E a, b \in PeerIds : sol.edge_assignments[a] = "A" /\ sol.edge_assignments[b] = "B"
    /\ \E i \in DOMAIN peer_list : probe.effective_delays[i][2] > 0
    /\ sol.avg_delay = R(0)
    /\ sol.load_imbalance = R(0)
    /\ sol.fitness = R(1000000)

\* the slots in which the super-peer list `after` differs from the list `prior`
ChangedSlots(prior, after) == {i \in DOMAIN prior : after[i] # prior[i]}

\* C25: mutate_solution preserves the super-peer count and changes at most one slot of
\* the super-peer list: a changed slot receives a peer id that was not in the list
\* before the change, and when the super-peer count equals the number of peers (or the
\* list is empty) the super-peer list of the result equals that of the input.
C25_MutationPreservesCount ==
    probe.op = "mutate_solution" =>
        LET prior == probe.super_peers
            after == sol.super_peers
        IN /\ Len(after) = Len(prior)
           /\ Cardinality(ChangedSlots(prior, after)) <= 1
           /\ \A i \in ChangedSlots(prior, after) :
                 after[i] \in PeerIds /\ after[i] \notin Range(prior)
           /\ (Len(prior) = Len(peer_list) \/ prior = <<>>) => after = prior

\* two super-peers out of three peers were mutated: one slot now holds the third peer
C25_Witness ==
    /\ probe.op = "mutate_solution"
    /\ Len(peer_list) = 3
    /\ Len(probe.super_peers) = 2
    /\ Len(sol.super_peers) = 2
    /\ Cardinality(ChangedSlots(probe.super_peers, sol.super_peers)) = 1
    /\ Range(sol.super_peers) \cup Range(probe.super_peers) = PeerIds

\* every label of every Solution held is "A" or "B"
EdgeLabelsInAB ==
    \A s \in HeldSolutions :
        \A id \in DOMAIN s.edge_assignments : s.edge_assignments[id] \in {"A", "B"}

\* C26: edge labels stay in the closed set {A, B}: every edge assignment of every
\* Solution produced by generate_random_solution, by any sequence of mutate_solution
\* calls and by optimize() is "A" or "B", and an entry a mutate_solution call changes
\* goes from "A" to "B" or from "B" to "A".
C26_EdgeLabelsClosed ==
    /\ []EdgeLabelsInAB
    /\ [][CallMutateSolution =>
             \A id \in DOMAIN sol.edge_assignments :
                 sol'.edge_assignments[id] # sol.edge_assignments[id] =>
                     \/ sol.edge_assignments[id] = "A" /\ sol'.edge_assignments[id] = "B"
                     \/ sol.edge_assignments[id] = "B" /\ sol'.edge_assignments[id] = "A"]_vars

\* optimize() with a population of one on two peers: the only member of generation 1
\* is the mutated clone of the only member of generation 0, which the best-ever
\* Solution copies, and the mutation moved p1 from A to B and p2 from B to A
C26_Witness ==
    /\ pc = "loop"
    /\ generation = 1
    /\ pop_size = 1
    /\ Len(population) = 1
    /\ population[1].fitness = R(0)
    /\ peer_list = <<"p1", "p2">>
    /\ best_solution.edge_assignments = ("p1" :> "A") @@ ("p2" :> "B")
    /\ population[1].edge_assignments = ("p1" :> "B") @@ ("p2" :> "A")

\* optimize() was called on a configuration with a non-empty peer set, pop_size >= 1,
\* clone_factor >= 0 and max_generations >= 1
TerminatingConfiguration ==
    /\ pc = "init"
    /\ Len(peer_list) > 0
    /\ pop_size >= 1
    /\ clone_factor >= 0
    /\ max_generations >= 1

\* the call has returned after max_generations generations, one record each
ReturnedAfterAllGenerations ==
    /\ pc = "idle"
    /\ returned # None
    /\ Len(generation_history) = calls * max_generations

\* C27: optimize() terminates for every configuration with a non-empty peer set,
\* pop_size >= 1, clone_factor >= 0 and max_generations >= 1: it returns, after
\* exactly max_generations generations (it leaves the loop at generation =
\* max_generations only), and the fill loop of a generation inserts while the new
\* population is short of pop_size, so at most pop_size Solutions.
C27_OptimizeTerminates ==
    /\ TerminatingConfiguration ~> ReturnedAfterAllGenerations
    /\ [][pc = "loop" /\ pc' = "idle" => generation = max_generations]_vars
    /\ [](pc = "fill" => Len(new_population) < pop_size)
    /\ [][pc = "fill" /\ pc' = "fill" =>
             Len(new_population') = Len(new_population) + 1]_vars

\* the same for the configurations whose num_super_peers is not negative
NonNegativeCountTerminates ==
    /\ (TerminatingConfiguration /\ num_super_peers >= 0) ~> ReturnedAfterAllGenerations
    /\ [][pc = "loop" /\ pc' = "idle" => generation = max_generations]_vars
    /\ [](pc = "fill" => Len(new_population) < pop_size)
    /\ [][pc = "fill" /\ pc' = "fill" =>
             Len(new_population') = Len(new_population) + 1]_vars

\* load_imbalance over the square of half the total demand, 0 without demand
NormalizedImbalanceOf(load_imbalance) ==
    IF TotalDemand = 0 THEN R(0)
    ELSE RatDiv(load_imbalance, Square(Rat(TotalDemand, 2)))

\* C28: for non-negative demands, the load_imbalance evaluate_solution computes is
\* ((edge_a_load - edge_b_load) / 2)^2 and never exceeds (total_demand / 2)^2, so the
\* normalized imbalance, the one the fitness is made of, lies in [0, 1] and is 1
\* exactly when all demand is assigned to one edge (total demand > 0).
C28_ImbalanceFormula ==
    WellFormedEvaluated /\ (\A id \in PeerIds : peers[id].demand >= 0) =>
        /\ probe.result.load_imbalance = sol.load_imbalance
        /\ sol.load_imbalance = Square(Rat(sol.edge_a_load - sol.edge_b_load, 2))
        /\ RatLeq(sol.load_imbalance, Square(Rat(TotalDemand, 2)))
        /\ RatLeq(R(0), NormalizedImbalanceOf(sol.load_imbalance))
        /\ RatLeq(NormalizedImbalanceOf(sol.load_imbalance), R(1))
        /\ TotalDemand > 0 =>
              (NormalizedImbalanceOf(sol.load_imbalance) = R(1)
                   <=> (sol.edge_a_load = TotalDemand \/ sol.edge_b_load = TotalDemand))
        /\ sol.fitness
               = RatInv(RatAdd(RatAdd(RatMul(alpha, RatDiv(sol.avg_delay, R(200))),
                                      RatMul(beta,
                                             NormalizedImbalanceOf(sol.load_imbalance))),
                               Rat(1, 1000000)))

\* three peers, all assigned to edge B: loads 0 and 8, load_imbalance 16 = (8/2)^2, the
\* normalized imbalance 1
C28_Witness ==
    /\ WellFormedEvaluated
    /\ Len(peer_list) = 3
    /\ sol.edge_a_load = 0
    /\ sol.edge_b_load = 8
    /\ sol.load_imbalance = R(16)
    /\ NormalizedImbalanceOf(sol.load_imbalance) = R(1)

\* C29: in every GenerationRecord, avg_fitness <= best_fitness (compared as floats
\* when the record has just been appended): the recorded best-ever
\* fitness is at least the fitness of every member of that generation's population,
\* and is the maximum fitness over all Solutions evaluated in generations 0..g (the
\* larger of the previous record's best_fitness and of the members' fitness).
C29_AvgAtMostBest ==
    pc = "clone" =>
        /\ ~FloatLess(FitnessFloat(best_solution), Last(generation_history).avg_fitness)
        /\ Last(generation_history).best_fitness = best_fitness
        /\ \A i \in DOMAIN population : RatLeq(population[i].fitness, best_fitness)
        /\ \/ \E i \in DOMAIN population : population[i].fitness = best_fitness
           \/ /\ generation >= 1
              /\ best_fitness
                     = generation_history[Len(generation_history) - 1].best_fitness

\* what C29 says of the best-ever fitness alone
BestIsRunningMaximum ==
    pc = "clone" =>
        /\ Last(generation_history).best_fitness = best_fitness
        /\ \A i \in DOMAIN population : RatLeq(population[i].fitness, best_fitness)
        /\ \/ \E i \in DOMAIN population : population[i].fitness = best_fitness
           \/ /\ generation >= 1
              /\ best_fitness
                     = generation_history[Len(generation_history) - 1].best_fitness

\* C30: evaluate_solution changes only the five derived fields of the Solution it is
\* given, to the tuple it returns: that Solution's super-peer list and edge
\* assignments, every other Solution, the peers and the distance table stay as they
\* were, and evaluating the Solution once more returns the same tuple and changes
\* nothing.
C30_EvaluateFrame ==
    [][CallEvaluateSolution =>
          /\ sol'.super_peers = sol.super_peers
          /\ sol'.edge_assignments = sol.edge_assignments
          /\ DOMAIN sol' = DOMAIN sol
          /\ <<sol'.fitness, sol'.avg_delay, sol'.load_imbalance, sol'.edge_a_load,
               sol'.edge_b_load>>
                 = <<probe'.result.fitness, probe'.result.avg_delay,
                     probe'.result.load_imbalance, probe'.result.edge_a_load,
                     probe'.result.edge_b_load>>
          /\ UNCHANGED <<peers, peer_list, rtt_matrix, population, new_population,
                         best_solution, returned, generation_history>>
          /\ Metrics(sol') = probe'.result
          /\ evaluate_solution(sol') = sol']_vars

\* a mutated Solution, its derived fields reset, with two super-peers that are not in
\* the order of the peer list, has been evaluated: it carries the returned tuple and
\* another evaluation would return it again
C30_Witness ==
    /\ probe.op = "evaluate_solution"
    /\ Len(sol.super_peers) = 2
    /\ sol.super_peers # SelectSeq(peer_list, LAMBDA p : p \in Range(sol.super_peers))
    /\ sol.fitness = probe.result.fitness
    /\ RatLess(R(0), sol.fitness)
    /\ sol.edge_a_load = probe.result.edge_a_load
    /\ Metrics(sol) = probe.result
    /\ evaluate_solution(sol) = sol

====
